---- MODULE Spec2Model ----
(***************************************************************************)
(* go-reconnectwifi: a poll loop that keeps a Windows wireless interface   *)
(* connected to one network by scraping the text output of netsh.          *)
(*                                                                         *)
(* Three program variants live in the repository:                          *)
(*   "slog"    the flag/slog program printed in src/README.md              *)
(*   "main"    src/main.go (the file the release workflow builds)          *)
(*   "part000" src/unnamed/part_000 (no visibility scan)                   *)
(*                                                                         *)
(* Text is modelled as a sequence of atoms (one atom per character); the   *)
(* Chinese labels are spelled in pinyin, one atom per rune:                *)
(*   名称 = <<"ming","cheng">>   状态 = <<"zhuang","tai">>                  *)
(*   已连接 = <<"yi","lian","jie">>                                         *)
(***************************************************************************)
EXTENDS Integers, Sequences, FiniteSets, TLC

(***************************************************************************)
(* Go's strings package, as far as the program uses it.                    *)
(***************************************************************************)
IsSpace(c) == c \in {" ", "\t", "\r"}

RECURSIVE TrimLeft(_)
TrimLeft(s) == IF s = <<>> \/ ~IsSpace(Head(s)) THEN s ELSE TrimLeft(Tail(s))

RECURSIVE TrimRight(_)
TrimRight(s) ==
    IF s = <<>> \/ ~IsSpace(s[Len(s)]) THEN s ELSE TrimRight(SubSeq(s, 1, Len(s) - 1))

\* strings.TrimSpace
TrimSpace(s) == TrimRight(TrimLeft(s))

\* strings.HasPrefix
HasPrefix(s, p) == Len(s) >= Len(p) /\ SubSeq(s, 1, Len(p)) = p

\* strings.Contains
Contains(s, sub) ==
    \E i \in 1..(Len(s) - Len(sub) + 1) : SubSeq(s, i, i + Len(sub) - 1) = sub

\* strings.Index for a one-atom separator; 0 when absent
IndexOf(s, c) ==
    IF \E i \in 1..Len(s) : s[i] = c
    THEN CHOOSE i \in 1..Len(s) : s[i] = c /\ \A j \in 1..(i - 1) : s[j] # c
    ELSE 0

\* strings.SplitN(s, sep, 2): one part when sep is absent, else two
SplitN2(s, sep) ==
    LET i == IndexOf(s, sep)
    IN  IF i = 0 THEN <<s>> ELSE <<SubSeq(s, 1, i - 1), SubSeq(s, i + 1, Len(s))>>

\* strings.Split(s, sep) for a one-atom separator
RECURSIVE Split(_, _)
Split(s, sep) ==
    LET i == IndexOf(s, sep)
    IN  IF i = 0 THEN <<s>>
        ELSE <<SubSeq(s, 1, i - 1)>> \o Split(SubSeq(s, i + 1, Len(s)), sep)

\* the text of a command output whose lines are ls (inverse of Split on "\n")
RECURSIVE JoinLines(_)
JoinLines(ls) ==
    IF ls = <<>> THEN <<>>
    ELSE IF Len(ls) = 1 THEN ls[1]
    ELSE ls[1] \o <<"\n">> \o JoinLines(Tail(ls))

(***************************************************************************)
(* Labels and tokens of the netsh text.                                    *)
(***************************************************************************)
keywordInterfaceName == <<"ming", "cheng">>
keywordNameEn == <<"N", "a", "m", "e">>
keywordSSID == <<"S", "S", "I", "D">>
keywordState == <<"zhuang", "tai">>
keywordConnectedState == <<"yi", "lian", "jie">>
markerAPBSSID == <<"A", "P", " ", "B", "S", "S", "I", "D">>
keywordScanSSID == <<"S", "S", "I", "D", " ">>
Colon == ":"
phraseZh == <<"meiyou", "wuxian", "wangluo", "kejian">>
phraseEn == <<"No", " ", "wireless", " ", "networks", " ", "are", " ", "currently",
              " ", "visible">>

Variants == {"slog", "main", "part000"}

(***************************************************************************)
(* A finished netsh invocation: err is "nil" (exit code 0), "exit" (a      *)
(* non-zero exit or a start failure) or "timeout" (slog variant only: the  *)
(* context deadline of runNetshCommand expired).                           *)
(***************************************************************************)
CmdResult(err, stdout, stderr) == [err |-> err, stdout |-> stdout, stderr |-> stderr]

\* the text after the first colon of a label line, trimmed (parts[1] in the source)
HasValue(trimmedLine) == Len(SplitN2(trimmedLine, Colon)) = 2
ValueOf(trimmedLine) == TrimSpace(SplitN2(trimmedLine, Colon)[2])

(***************************************************************************)
(* Interface Resolver: getWlanInterface.                                   *)
(***************************************************************************)
\* IsResolverNameLine that knows the Chinese label only
IsResolverNameLineZhOnly(trimmedLine) == HasPrefix(trimmedLine, keywordInterfaceName)

IsResolverNameLine(trimmedLine) ==
    HasPrefix(trimmedLine, keywordInterfaceName) \/ HasPrefix(trimmedLine, keywordNameEn)

RECURSIVE FirstInterfaceName(_)
FirstInterfaceName(lines) ==
    IF lines = <<>> THEN <<>>
    ELSE LET trimmedLine == TrimSpace(Head(lines))
         IN  IF /\ IsResolverNameLine(trimmedLine)
                /\ HasValue(trimmedLine)
                /\ ValueOf(trimmedLine) # <<>>
             THEN ValueOf(trimmedLine)
             ELSE FirstInterfaceName(Tail(lines))

\* returns [name, err]
getWlanInterface(res) ==
    IF res.err # "nil" THEN [name |-> <<>>, err |-> "err"]
    ELSE LET n == FirstInterfaceName(Split(res.stdout, "\n"))
         IN  IF n = <<>> THEN [name |-> <<>>, err |-> "err"]
             ELSE [name |-> n, err |-> "nil"]

(***************************************************************************)
(* Status Parser: isConnected.  The loop over the lines is StatusStep, one *)
(* line at a time, on the locals of the function; done/result record an    *)
(* early return.                                                           *)
(***************************************************************************)
ParserInit ==
    [inTargetInterfaceBlock |-> FALSE, blockParsedSSID |-> <<>>,
     blockParsedState |-> <<>>, done |-> FALSE, result |-> FALSE]

\* the line opens an interface block
IsNameLine(v, trimmedLine) ==
    /\ HasPrefix(trimmedLine, keywordInterfaceName)
    /\ (v = "slog" => Contains(trimmedLine, <<Colon>>))

\* IsSSIDLine with the AP BSSID exclusion forgotten
IsSSIDLineNoExclusion(v, trimmedLine) ==
    /\ HasPrefix(trimmedLine, keywordSSID)
    /\ (v = "slog" => Contains(trimmedLine, <<Colon>>))

\* the line is taken as the SSID source of the block
IsSSIDLine(v, trimmedLine) ==
    /\ HasPrefix(trimmedLine, keywordSSID)
    /\ ~Contains(trimmedLine, markerAPBSSID)
    /\ (v = "slog" => Contains(trimmedLine, <<Colon>>))

\* the line is taken as the state source of the block (an else-if in slog)
IsStateLine(v, trimmedLine) ==
    /\ HasPrefix(trimmedLine, keywordState)
    /\ (v = "slog" => Contains(trimmedLine, <<Colon>>) /\ ~IsSSIDLine(v, trimmedLine))

\* Verdict without the test that a state was read: a matching SSID whose
\* state line has not come yet is already taken for "not connected"
VerdictEagerFalse(v, ssid, state, target) ==
    IF ssid = target /\ state = keywordConnectedState THEN "true"
    ELSE IF ssid = target /\ state # keywordConnectedState THEN "false"
    ELSE "continue"

\* Verdict that takes any state of the target network for a connection
VerdictAnyState(v, ssid, state, target) ==
    IF ssid = target /\ state # <<>> THEN "true" ELSE "continue"

\* Verdict whose part_000 has the return of true only
VerdictLateFalse(v, ssid, state, target) ==
    IF v = "slog" /\ (ssid = <<>> \/ state = <<>>) THEN "continue"
    ELSE IF ssid = target /\ state = keywordConnectedState THEN "true"
    ELSE IF v # "part000" /\ ssid = target /\ state # <<>> THEN "false"
    ELSE "continue"

\* the two return tests at the end of the loop body: "true", "false" or "continue"
Verdict(v, ssid, state, target) ==
    IF v = "slog" /\ (ssid = <<>> \/ state = <<>>) THEN "continue"
    ELSE IF ssid = target /\ state = keywordConnectedState THEN "true"
    ELSE IF ssid = target /\ state # <<>> /\ state # keywordConnectedState THEN "false"
    ELSE "continue"

\* AfterOtherName that stays in the target block once it is in it
AfterOtherNameSticky(inBlock) == inBlock

\* inTargetInterfaceBlock after a name line of another interface
AfterOtherName(inBlock) == FALSE

StatusStep(v, st, line, target, iface) ==
    LET trimmedLine == TrimSpace(line)
    IN  IF st.done THEN st
        ELSE IF IsNameLine(v, trimmedLine) THEN
            IF HasValue(trimmedLine) THEN
                IF ValueOf(trimmedLine) = iface
                THEN [st EXCEPT !.inTargetInterfaceBlock = TRUE,
                                !.blockParsedSSID = <<>>,
                                !.blockParsedState = <<>>]
                ELSE [st EXCEPT !.inTargetInterfaceBlock =
                                    AfterOtherName(st.inTargetInterfaceBlock)]
            ELSE st
        ELSE IF st.inTargetInterfaceBlock THEN
            LET ssid == IF IsSSIDLine(v, trimmedLine) /\ HasValue(trimmedLine)
                        THEN ValueOf(trimmedLine) ELSE st.blockParsedSSID
                state == IF IsStateLine(v, trimmedLine) /\ HasValue(trimmedLine)
                         THEN ValueOf(trimmedLine) ELSE st.blockParsedState
                verdict == Verdict(v, ssid, state, target)
            IN  [st EXCEPT !.blockParsedSSID = ssid,
                           !.blockParsedState = state,
                           !.done = verdict # "continue",
                           !.result = verdict = "true"]
        ELSE st

RECURSIVE StatusFold(_, _, _, _, _)
StatusFold(v, st, lines, target, iface) ==
    IF lines = <<>> \/ st.done THEN st
    ELSE StatusFold(v, StatusStep(v, st, Head(lines), target, iface), Tail(lines),
                    target, iface)

\* isConnected that reports a parse which decides nothing as an error
isConnectedStrict(v, res, target, iface) ==
    IF res.err # "nil" THEN [connected |-> FALSE, err |-> "err"]
    ELSE LET st == StatusFold(v, ParserInit, Split(res.stdout, "\n"), target, iface)
         IN  [connected |-> st.result, err |-> IF st.done THEN "nil" ELSE "err"]

\* returns [connected, err]
isConnected(v, res, target, iface) ==
    IF res.err # "nil" THEN [connected |-> FALSE, err |-> "err"]
    ELSE [connected |->
              StatusFold(v, ParserInit, Split(res.stdout, "\n"), target, iface).result,
          err |-> "nil"]

(***************************************************************************)
(* Visibility Scanner: isNetworkAvailable (slog variant and main.go).      *)
(***************************************************************************)
\* IsNoNetworksVisible that recognises the Chinese phrasing only
IsNoNetworksVisibleZhOnly(stderr) == Contains(stderr, phraseZh)

IsNoNetworksVisible(stderr) == Contains(stderr, phraseZh) \/ Contains(stderr, phraseEn)

\* IsScanMatch that looks for the label anywhere in the line
IsScanMatchAnywhere(line, target) ==
    LET trimmedLine == TrimSpace(line)
    IN  /\ Contains(trimmedLine, keywordScanSSID)
        /\ HasValue(trimmedLine)
        /\ ValueOf(trimmedLine) = target

IsScanMatch(line, target) ==
    LET trimmedLine == TrimSpace(line)
    IN  /\ HasPrefix(trimmedLine, keywordScanSSID)
        /\ HasValue(trimmedLine)
        /\ ValueOf(trimmedLine) = target

\* returns [visible, err]
isNetworkAvailable(res, target) ==
    IF res.err # "nil" THEN
        IF IsNoNetworksVisible(res.stderr)
        THEN [visible |-> FALSE, err |-> "nil"]
        ELSE [visible |-> FALSE, err |-> "err"]
    ELSE LET lines == Split(res.stdout, "\n")
         IN  [visible |-> \E i \in 1..Len(lines) : IsScanMatch(lines[i], target),
              err |-> "nil"]

\* connectToWifi: nil exactly when the command was accepted
connectToWifi(res) == IF res.err # "nil" THEN "err" ELSE "nil"

(***************************************************************************)
(* Inputs of the parsers.  MaxLines bounds the length of a status output,   *)
(* MaxFailLines what a failing status command printed before it failed.    *)
(***************************************************************************)
MaxLines == 4
MaxFailLines == 1

SSID1 == <<"q">>
SSID2 == <<"z">>
Iface1 == <<"W">>
Iface2 == <<"V">>
stateDisconnected == <<"duan", "kai">>

\* a netsh line: indented label, colon, value, carriage return
Labelled(label, value) == <<" ">> \o label \o <<" ", Colon, " ">> \o value \o <<"\r">>

StatusLines ==
    { Labelled(keywordInterfaceName, Iface1),
      Labelled(keywordInterfaceName, Iface2),
      <<" ">> \o keywordInterfaceName \o <<"\r">>,
      Labelled(keywordSSID, SSID1),
      Labelled(keywordSSID, SSID2),
      Labelled(keywordState, keywordConnectedState),
      Labelled(keywordState, stateDisconnected),
      Labelled(markerAPBSSID, SSID1),
      Labelled(keywordSSID \o <<" ">> \o markerAPBSSID, SSID1),
      Labelled(keywordSSID \o <<" ", "B">> \o keywordSSID, SSID2) }

CmdErrs == {"nil", "exit", "timeout"}

\* all sequences over S of length at most n
SeqsUpTo(S, n) == UNION {[1..k -> S] : k \in 0..n}

(***************************************************************************)
(* Inputs of the Visibility Scanner.  MaxScanLines bounds a scan output.   *)
(***************************************************************************)
MaxScanLines == 2

ScanLines ==
    { Labelled(keywordSSID \o <<" ", "1">>, SSID1),
      Labelled(keywordSSID \o <<" ", "2">>, SSID2),
      Labelled(<<"B">> \o keywordSSID \o <<" ", "1">>, SSID1),
      Labelled(keywordSSID, SSID1),
      <<" ">> \o keywordSSID \o <<Colon>> \o SSID1 \o <<"\r">>,
      <<" ">> \o keywordSSID \o <<" ", "1", "\r">> }

ScanStderrs ==
    { <<>>,
      phraseZh,
      phraseEn,
      <<"netsh", Colon, " ">> \o phraseEn \o <<".", "\r">>,
      <<"x">> \o phraseZh \o <<"\r">>,
      SubSeq(phraseEn, 1, Len(phraseEn) - 2),
      <<"no">> \o Tail(phraseEn),
      <<"access", " ", "denied">> }

ScanResults ==
    { CmdResult(err, JoinLines(lines), stderr) :
        err \in CmdErrs, lines \in SeqsUpTo(ScanLines, MaxScanLines),
        stderr \in ScanStderrs }

(***************************************************************************)
(* What netsh can answer during the poll loop.  MaxTicks bounds the number *)
(* of timer ticks of a run.                                                *)
(***************************************************************************)
MaxTicks == 3

outConnected ==
    JoinLines(<< Labelled(keywordInterfaceName, Iface1),
                 Labelled(keywordState, keywordConnectedState),
                 Labelled(keywordSSID, SSID1),
                 Labelled(markerAPBSSID, SSID2) >>)
outOtherNetwork ==
    JoinLines(<< Labelled(keywordInterfaceName, Iface1),
                 Labelled(keywordState, keywordConnectedState),
                 Labelled(keywordSSID, SSID2) >>)
outDisconnected ==
    JoinLines(<< Labelled(keywordInterfaceName, Iface1),
                 Labelled(keywordState, stateDisconnected) >>)
outOtherInterface ==
    JoinLines(<< Labelled(keywordInterfaceName, Iface2),
                 Labelled(keywordState, keywordConnectedState),
                 Labelled(keywordSSID, SSID1) >>)
outAuthenticating ==
    JoinLines(<< Labelled(keywordInterfaceName, Iface1),
                 Labelled(keywordState, <<"zheng", "zai", "yan", "zheng">>),
                 Labelled(keywordSSID, SSID1) >>)
outStateTwice ==
    JoinLines(<< Labelled(keywordInterfaceName, Iface1),
                 Labelled(keywordSSID, SSID1),
                 Labelled(keywordState, keywordConnectedState),
                 Labelled(keywordState, <<"zheng", "zai", "yan", "zheng">>) >>)
outEnglish ==
    JoinLines(<< Labelled(keywordNameEn, Iface1),
                 Labelled(keywordSSID, SSID1) >>)

\* netsh wlan show interfaces
LoopStatusResults ==
    { CmdResult("nil", out, <<>>) :
        out \in {outConnected, outOtherNetwork, outDisconnected, outOtherInterface,
                 outAuthenticating, outStateTwice, <<>>} }
    \cup { CmdResult("exit", <<>>, <<"x">>), CmdResult("timeout", <<>>, <<>>) }

\* netsh wlan show networks interface=... mode=bssid
LoopScanResults ==
    { CmdResult("nil", JoinLines(<<Labelled(keywordSSID \o <<" ", "1">>, SSID1)>>), <<>>),
      CmdResult("nil", JoinLines(<<Labelled(keywordSSID \o <<" ", "1">>, SSID2)>>), <<>>),
      CmdResult("exit", <<>>, phraseEn),
      CmdResult("exit", <<>>, <<"access", " ", "denied">>),
      CmdResult("timeout", <<>>, <<>>) }

\* netsh wlan connect name=... interface=...
LoopConnectResults ==
    { CmdResult("nil", <<"ok">>, <<>>), CmdResult("exit", <<>>, <<"x">>),
      CmdResult("timeout", <<>>, <<>>) }

\* only runNetshCommand (slog variant) puts a deadline on the command
CanEndWith(v, res) == res.err = "timeout" => v = "slog"

VARIABLES
    psTarget,   \* isConnected: targetSSID
    psIface,    \* isConnected: interfaceName
    psLines,    \* the lines of the status output read so far
    ps,         \* per variant, the locals of isConnected after those lines
    psCmdErr,   \* how the status command ended ("running" until it has)
    psRet,      \* per variant, what isConnected returned (err "running" until then)
    scTarget,   \* isNetworkAvailable: targetSSID
    scRes,      \* how the scan command ended
    scRet,      \* what isNetworkAvailable returned (err "running" until then)
    variant,            \* which of the three programs runs
    targetSSID,         \* configuration: -ssid / const targetSSID
    wifiInterfaceName,  \* configuration: -interface / const wifiInterfaceName
    checkInterval,      \* configuration: -interval / const checkInterval, in seconds
    effectiveIfaceName, \* main: effectiveIfaceName
    pc,                 \* where main is
    exitCode,           \* exit status once pc = "exited", else -1
    tickPending,        \* ticks waiting in ticker.C (the channel holds one)
    ticksFired,         \* ticks the timer has fired
    ticksReceived,      \* ticks main has received from ticker.C
    cycles,             \* check-and-connect cycles started
    firstStatusAt,      \* ticksReceived when the first status query ran, else -1
    cyc,                \* the current (or last) cycle: results, commands, arguments
    failedConnects,     \* connect commands that failed in the cycles just before
    child,              \* the netsh child main is blocked on ("none" when there is none)
    inFlight,           \* netsh children started whose cmd.Run() has not returned
    resolves,           \* calls of getWlanInterface so far
    logFile,            \* logFilePath / -logfile: "none", or a path that "opens" or "fails"
    logOutput,          \* where the logger writes: "file" or "stdout" ("unset" before)
    rvRes,      \* getWlanInterface: how the interface listing command ended
    rvRet,      \* what getWlanInterface returned (err "running" until then)
    rnTimeout,  \* runNetshCommand: timeout
    rnNow,      \* time since runNetshCommand was called
    rnPc,       \* "run" in cmd.Run(), "ran" before the ctx.Err() test, "done"
    rnChild,    \* the netsh child: "running", "exit0", "exitN" or "killed"
    rnExpired,  \* the context deadline has passed (ctx.Err() is DeadlineExceeded)
    rnRunErr,   \* err of cmd.Run() ("none" until it returned)
    rnOutcome   \* what runNetshCommand returned ("none" until then)

psVars == <<psTarget, psIface, psLines, ps, psCmdErr, psRet>>
scVars == <<scTarget, scRes, scRet>>
cfgVars == <<variant, targetSSID, wifiInterfaceName, checkInterval, logFile>>
tickVars == <<tickPending, ticksFired, ticksReceived>>
runVars == <<child, inFlight>>
lpVars ==
    <<cfgVars, effectiveIfaceName, pc, exitCode, tickVars, cycles, firstStatusAt, cyc,
      runVars, resolves, logOutput, failedConnects>>

rvVars == <<rvRes, rvRet>>
rnVars == <<rnTimeout, rnNow, rnPc, rnChild, rnExpired, rnRunErr, rnOutcome>>

vars == <<psVars, scVars, lpVars, rvVars, rnVars>>

\* what the actions of one part leave alone
nonStatusVars == <<scVars, lpVars, rvVars, rnVars>>
nonScanVars == <<psVars, lpVars, rvVars, rnVars>>
nonLoopVars == <<psVars, scVars, rvVars, rnVars>>
nonResolverVars == <<psVars, scVars, lpVars, rnVars>>
nonRunnerVars == <<psVars, scVars, lpVars, rvVars>>

(***************************************************************************)
(* Each specification below runs one part; the other parts stay idle.      *)
(***************************************************************************)
NoCycle ==
    [statusErr |-> "none", connected |-> FALSE, availErr |-> "none",
     networkVisible |-> FALSE, connectErr |-> "none", cmds |-> <<>>,
     args |-> {}, statusOut |-> <<>>]

StatusIdle ==
    /\ psTarget = <<>> /\ psIface = <<>> /\ psLines = <<>>
    /\ ps = <<>> /\ psCmdErr = "idle" /\ psRet = <<>>

ScanIdle == scTarget = <<>> /\ scRes = <<>> /\ scRet = <<>>

LoopIdle ==
    /\ variant = "idle" /\ targetSSID = <<>> /\ wifiInterfaceName = <<>>
    /\ checkInterval = 0
    /\ effectiveIfaceName = <<>> /\ pc = "idle" /\ exitCode = -1
    /\ tickPending = 0 /\ ticksFired = 0 /\ ticksReceived = 0
    /\ cycles = 0 /\ firstStatusAt = -1 /\ cyc = NoCycle
    /\ child = "none" /\ inFlight = 0 /\ resolves = 0
    /\ logFile = "idle" /\ logOutput = "unset" /\ failedConnects = 0

ResolverIdle == rvRes = <<>> /\ rvRet = <<>>

RunnerIdle ==
    /\ rnTimeout = 0 /\ rnNow = 0 /\ rnPc = "idle" /\ rnChild = "none"
    /\ rnExpired = FALSE /\ rnRunErr = "none" /\ rnOutcome = "none"

\* isConnected has not returned yet
StatusRunning == [v \in Variants |-> [connected |-> FALSE, err |-> "running"]]

StatusInit ==
    /\ psTarget \in {SSID1}
    /\ psIface \in {Iface1}
    /\ psLines = <<>>
    /\ ps = [v \in Variants |-> ParserInit]
    /\ psCmdErr = "running"
    /\ psRet = StatusRunning
    /\ ScanIdle /\ LoopIdle /\ ResolverIdle /\ RunnerIdle

\* the command prints one more line, and the loop of isConnected reads it
StatusFeed ==
    /\ psRet = StatusRunning
    /\ Len(psLines) < MaxLines
    /\ \E line \in StatusLines :
        /\ psLines' = Append(psLines, line)
        /\ ps' = [v \in Variants |-> StatusStep(v, ps[v], line, psTarget, psIface)]
    /\ UNCHANGED <<psTarget, psIface, psCmdErr, psRet, nonStatusVars>>

\* the command ended with err and printed psLines: isConnected returns
StatusReturn ==
    /\ psRet = StatusRunning
    /\ \E err \in CmdErrs :
        /\ err # "nil" => Len(psLines) <= MaxFailLines
        /\ psCmdErr' = err
        /\ psRet' = [v \in Variants |->
                      isConnected(v, CmdResult(err, JoinLines(psLines), <<>>),
                                  psTarget, psIface)]
    /\ UNCHANGED <<psTarget, psIface, psLines, ps, nonStatusVars>>

StatusNext == StatusFeed \/ StatusReturn

SpecStatus == StatusInit /\ [][StatusNext]_vars

(***************************************************************************)
(* Vocabulary of the Status Parser properties, on the lines of the output. *)
(***************************************************************************)
Tl(i) == TrimSpace(psLines[i])
OpensBlock(i) == HasPrefix(Tl(i), keywordInterfaceName) /\ HasValue(Tl(i))

\* the line that opens the block line i lies in (i itself if it opens one), or 0
BlockStart(i) ==
    IF \E j \in 1..i : OpensBlock(j)
    THEN CHOOSE j \in 1..i : OpensBlock(j) /\ \A k \in (j + 1)..i : ~OpensBlock(k)
    ELSE 0

\* line i lies inside a block named iface
InBlockOf(i, iface) ==
    LET j == BlockStart(i) IN j > 0 /\ j < i /\ ValueOf(Tl(j)) = iface

\* the first line that opens a block named iface, or 0
FirstBlockOf(iface) ==
    LET opens == {j \in 1..Len(psLines) : OpensBlock(j) /\ ValueOf(Tl(j)) = iface}
    IN  IF opens = {} THEN 0 ELSE CHOOSE j \in opens : \A k \in opens : j <= k

SSIDLabelLine(i) == HasPrefix(Tl(i), keywordSSID) /\ HasValue(Tl(i))
StateLabelLine(i) == HasPrefix(Tl(i), keywordState) /\ HasValue(Tl(i))
HasMarker(i, marker) == Contains(Tl(i), marker)
markerBSSID == <<"B", "S", "S", "I", "D">>

StatusReturned == psCmdErr # "running"
StatusSucceeded == psCmdErr = "nil"

\* C4 as claimed: isConnected returns (true, nil) for every non-empty target and
\* every output of a successful command in which a block named as the requested
\* interface contains an SSID line with the target as value and a state line with
\* the connected token as value.
C4_Original ==
    (/\ StatusSucceeded
     /\ psTarget # <<>>
     /\ \E i, j \in 1..Len(psLines) :
            /\ InBlockOf(i, psIface) /\ InBlockOf(j, psIface)
            /\ BlockStart(i) = BlockStart(j)
            /\ SSIDLabelLine(i) /\ ValueOf(Tl(i)) = psTarget
            /\ StateLabelLine(j) /\ ValueOf(Tl(j)) = keywordConnectedState)
    => \A v \in Variants : psRet[v] = [connected |-> TRUE, err |-> "nil"]

\* the first block named iface carries target as its only SSID value (on lines
\* without the AP BSSID marker) and the connected token as its only state value
FirstBlockConnected(iface, target) ==
    LET b == FirstBlockOf(iface)
        inB == {i \in 1..Len(psLines) : b > 0 /\ i > b /\ BlockStart(i) = b}
        ssidLines == {i \in inB : SSIDLabelLine(i) /\ ~HasMarker(i, markerAPBSSID)}
        stateLines == {i \in inB : StateLabelLine(i)}
    IN  /\ ssidLines # {} /\ stateLines # {}
        /\ \A i \in ssidLines : ValueOf(Tl(i)) = target
        /\ \A j \in stateLines : ValueOf(Tl(j)) = keywordConnectedState

\* C4 (amended): isConnected returns (true, nil) for every non-empty target and
\* every output of a successful command in which the first block named as the
\* requested interface has an SSID line without the AP BSSID marker and a state
\* line, the target is the value of all such SSID lines of the block and the
\* connected token is the value of all its state lines.
C4_ConnectedBlockYieldsTrue ==
    StatusSucceeded =>
        \/ \A v \in Variants : psRet[v] = [connected |-> TRUE, err |-> "nil"]
        \/ ~(psTarget # <<>> /\ FirstBlockConnected(psIface, psTarget))

\* C4 witness: the state line precedes the SSID line (the order netsh prints),
\* and every variant has returned true.
C4_Witness ==
    /\ StatusSucceeded
    /\ FirstBlockConnected(psIface, psTarget)
    /\ \E i, j \in 1..Len(psLines) : i < j /\ StateLabelLine(i) /\ SSIDLabelLine(j)
    /\ \A v \in Variants : psRet[v].connected

TargetSSIDSeen ==
    \E i \in 1..Len(psLines) :
        InBlockOf(i, psIface) /\ SSIDLabelLine(i) /\ ValueOf(Tl(i)) = psTarget
ConnectedStateSeen ==
    \E i \in 1..Len(psLines) :
        /\ InBlockOf(i, psIface) /\ StateLabelLine(i)
        /\ ValueOf(Tl(i)) = keywordConnectedState

ReadMarkedSSIDLine(marker) ==
    /\ Len(psLines') = Len(psLines) + 1
    /\ LET t == TrimSpace(psLines'[Len(psLines')])
       IN  HasPrefix(t, keywordSSID) /\ Contains(t, marker)

ScanRunning == [visible |-> FALSE, err |-> "running"]

ScanInit ==
    /\ scTarget \in {SSID1}
    /\ scRes \in ScanResults
    /\ scRet = ScanRunning
    /\ StatusIdle /\ LoopIdle /\ ResolverIdle /\ RunnerIdle

ScanReturn ==
    /\ scRet = ScanRunning
    /\ scRet' = isNetworkAvailable(scRes, scTarget)
    /\ UNCHANGED <<scTarget, scRes, nonScanVars>>

ScanNext == ScanReturn

SpecScan == ScanInit /\ [][ScanNext]_vars

ScanReturned == scRet # ScanRunning
StderrHasPhrase == Contains(scRes.stderr, phraseZh) \/ Contains(scRes.stderr, phraseEn)

\* C7: when the scan command fails, isNetworkAvailable returns (false, nil) if the
\* captured stderr contains one of the two "no networks visible" phrasings, and a
\* non-nil error if it contains neither.
C7_NoNetworksIsNotAnError ==
    (ScanReturned /\ scRes.err # "nil") =>
        IF StderrHasPhrase
        THEN scRet = [visible |-> FALSE, err |-> "nil"]
        ELSE scRet.err = "err"

\* C7 witness: the command failed, stderr carries the English phrasing inside
\* other text and stdout even lists the target; the scanner returned (false, nil).
C7_Witness ==
    /\ ScanReturned
    /\ scRes.err = "exit"
    /\ Contains(scRes.stderr, phraseEn) /\ scRes.stderr # phraseEn
    /\ \E i \in 1..Len(Split(scRes.stdout, "\n")) :
            IsScanMatch(Split(scRes.stdout, "\n")[i], scTarget)
    /\ scRet = [visible |-> FALSE, err |-> "nil"]

\* the scan output, line by line, as the claim reads it
Sl(i) == TrimSpace(Split(scRes.stdout, "\n")[i])
ScanLineCount == Len(Split(scRes.stdout, "\n"))
ListsTarget(i) ==
    /\ HasPrefix(Sl(i), <<"S", "S", "I", "D", " ">>)
    /\ IndexOf(Sl(i), Colon) > 0
    /\ TrimSpace(SubSeq(Sl(i), IndexOf(Sl(i), Colon) + 1, Len(Sl(i)))) = scTarget

\* C17: when the scan command succeeded, isNetworkAvailable returns (true, nil) if
\* some trimmed line starts with 'SSID ' and its trimmed text after the first
\* colon equals the target, and (false, nil) otherwise; a line starting with
\* 'BSSID' is no such line.
C17_VisibleIffListed ==
    (ScanReturned /\ scRes.err = "nil") =>
        scRet = [visible |-> \E i \in 1..ScanLineCount : ListsTarget(i), err |-> "nil"]

\* C17 witness: the scan succeeded and printed a 'BSSID 1' line whose value is the
\* target and an 'SSID 2' line of another network: not visible, no error.
C17_Witness ==
    /\ ScanReturned /\ scRes.err = "nil" /\ ScanLineCount = 2
    /\ HasPrefix(Sl(1), <<"B", "S", "S", "I", "D", " ">>)
    /\ TrimSpace(SubSeq(Sl(1), IndexOf(Sl(1), Colon) + 1, Len(Sl(1)))) = scTarget
    /\ HasPrefix(Sl(2), <<"S", "S", "I", "D", " ">>) /\ ~ListsTarget(2)
    /\ scRet = [visible |-> FALSE, err |-> "nil"]

(***************************************************************************)
(* The program: startup, then the poll loop.                               *)
(*   pc = "start"       main begins (flags parsed, logger being set up)    *)
(*        "resolve"     getWlanInterface is about to run                   *)
(*        "ticker"      time.NewTicker is about to be called               *)
(*        "wait"        blocked on <-ticker.C                              *)
(*        "status"      isConnected is about to run                        *)
(*        "visibility"  isNetworkAvailable is about to run                 *)
(*        "connect"     connectToWifi is about to run                      *)
(*        "exited"      the process has ended                              *)
(* and "resolveRun", "statusRun", "visibilityRun", "connectRun" while the  *)
(* function is blocked in cmd.Run() on its netsh child process.            *)
(***************************************************************************)
\* the poll interval in seconds: a flag of any duration in the slog variant
\* (default 15 s), a constant in main.go (15 s) and in part_000 (30 s)
CheckIntervals(v) ==
    IF v = "slog" THEN {-1, 0, 15} ELSE IF v = "main" THEN {15} ELSE {30}

LoopInit ==
    /\ variant \in Variants
    /\ targetSSID \in {<<>>, SSID1}
    /\ wifiInterfaceName \in {<<>>, Iface1}
    /\ checkInterval \in CheckIntervals(variant)
    /\ effectiveIfaceName = <<>>
    /\ pc = "start"
    /\ exitCode = -1
    /\ tickPending = 0 /\ ticksFired = 0 /\ ticksReceived = 0
    /\ cycles = 0
    /\ firstStatusAt = -1
    /\ cyc = NoCycle
    /\ child = "none" /\ inFlight = 0
    /\ resolves = 0
    /\ logFile \in {"none", "opens", "fails"}
    /\ logOutput = "unset"
    /\ failedConnects = 0
    /\ StatusIdle /\ ScanIdle /\ ResolverIdle /\ RunnerIdle

\* setupLogger / setupSlog: the destination of the log; a log file that cannot
\* be opened leaves the logger on standard output
setupLogger(file) == IF file = "opens" THEN "file" ELSE "stdout"

\* StartupFatal that also gives up when the log file cannot be opened
StartupFatalOnLog(v, file, target) == file = "fails" \/ (v = "slog" /\ target = <<>>)

\* the configuration check after the logger is set up: only the slog variant
\* has one, for the target name
StartupFatal(v, file, target) == v = "slog" /\ target = <<>>

\* main up to the interface decision: logger, the -ssid check (slog only)
Start ==
    /\ pc = "start"
    /\ logOutput' = setupLogger(logFile)
    /\ IF StartupFatal(variant, logFile, targetSSID)
       THEN pc' = "exited" /\ exitCode' = 1 /\ UNCHANGED effectiveIfaceName
       ELSE /\ effectiveIfaceName' = wifiInterfaceName
            /\ pc' = IF wifiInterfaceName = <<>> THEN "resolve" ELSE "ticker"
            /\ UNCHANGED exitCode
    /\ UNCHANGED <<cfgVars, tickVars, cycles, firstStatusAt, cyc, runVars, resolves,
                   failedConnects, nonLoopVars>>

CmdPoints == {"resolve", "status", "visibility", "connect"}
RunPoints == {"resolveRun", "statusRun", "visibilityRun", "connectRun"}

\* where main is while the command started at p runs
RunOf(p) ==
    CASE p = "resolve" -> "resolveRun"
      [] p = "status" -> "statusRun"
      [] p = "visibility" -> "visibilityRun"
      [] p = "connect" -> "connectRun"

\* CallArgs that passes the configured interface name instead of the effective one
CallArgsConfigured(ssid, configured, effective) == [ssid |-> ssid, iface |-> configured]

\* the (targetSSID, interfaceName) arguments main passes to isConnected,
\* isNetworkAvailable and connectToWifi
CallArgs(ssid, configured, effective) == [ssid |-> ssid, iface |-> effective]

\* exec.Command(...) / exec.CommandContext(...) and cmd.Run(): the netsh child
\* starts and the caller blocks.  A child that is "hung" never exits by itself.
Invoke ==
    /\ pc \in CmdPoints
    /\ pc' = RunOf(pc)
    /\ inFlight' = inFlight + 1
    /\ child' \in {"running", "hung"}
    /\ resolves' = IF pc = "resolve" THEN resolves + 1 ELSE resolves
    /\ cyc' = IF pc = "resolve" THEN cyc
              ELSE [cyc EXCEPT !.args = @ \cup
                        {CallArgs(targetSSID, wifiInterfaceName, effectiveIfaceName)}]
    /\ UNCHANGED <<cfgVars, logOutput, failedConnects, effectiveIfaceName, exitCode, tickVars, cycles,
                   firstStatusAt, nonLoopVars>>

\* the netsh child exits
ChildExit ==
    /\ pc \in RunPoints
    /\ child = "running"
    /\ child' = "exited"
    /\ UNCHANGED <<cfgVars, logOutput, failedConnects, effectiveIfaceName, pc, exitCode, tickVars, cycles,
                   firstStatusAt, cyc, inFlight, resolves, nonLoopVars>>

\* only runNetshCommand (slog variant) puts a deadline on the command
HasDeadline(v) == v = "slog"

\* the context deadline of runNetshCommand passes: the child is killed
Deadline ==
    /\ pc \in RunPoints
    /\ HasDeadline(variant)
    /\ child \in {"running", "hung"}
    /\ child' = "killed"
    /\ UNCHANGED <<cfgVars, logOutput, failedConnects, effectiveIfaceName, pc, exitCode, tickVars, cycles,
                   firstStatusAt, cyc, inFlight, resolves, nonLoopVars>>

\* cmd.Run() returns res: the child has exited, or it was killed at the deadline
Ended(res) ==
    \/ child = "exited"
    \/ child = "killed" /\ res.err = "timeout"

\* auto-detection of the interface; a failure ends the program
Resolve ==
    /\ pc = "resolveRun"
    /\ \E res \in LoopStatusResults \cup {CmdResult("nil", outEnglish, <<>>)} :
        /\ CanEndWith(variant, res) /\ Ended(res)
        /\ LET r == getWlanInterface(res)
           IN  IF r.err # "nil"
               THEN /\ pc' = "exited"
                    /\ exitCode' = IF variant = "slog" THEN 1 ELSE 0
                    /\ UNCHANGED effectiveIfaceName
               ELSE /\ effectiveIfaceName' = r.name
                    /\ pc' = "ticker"
                    /\ UNCHANGED exitCode
    /\ child' = "none" /\ inFlight' = inFlight - 1
    /\ UNCHANGED <<cfgVars, logOutput, failedConnects, tickVars, cycles, firstStatusAt, cyc, resolves,
                   nonLoopVars>>

\* NewTickerPanics of a ticker that takes any interval
NewTickerPanicsNever(d) == FALSE

\* time.NewTicker(d) panics when d is not positive
NewTickerPanics(d) == d <= 0

\* time.NewTicker, and what main does next: the slog variant calls
\* performCheckAndConnect once, main.go and part_000 enter the for/select.
\* A panic ends the program with exit status 2.
StartTicker ==
    /\ pc = "ticker"
    /\ IF NewTickerPanics(checkInterval)
       THEN pc' = "exited" /\ exitCode' = 2 /\ UNCHANGED <<cycles, cyc>>
       ELSE /\ UNCHANGED exitCode
            /\ IF variant = "slog"
               THEN pc' = "status" /\ cycles' = cycles + 1 /\ cyc' = NoCycle
               ELSE pc' = "wait" /\ UNCHANGED <<cycles, cyc>>
    /\ UNCHANGED <<cfgVars, logOutput, failedConnects, effectiveIfaceName, tickVars,
                   firstStatusAt, runVars, resolves, nonLoopVars>>

TickerRunning == pc \in {"wait"} \cup ((CmdPoints \cup RunPoints) \ {"resolve", "resolveRun"})

\* TickerSend of a channel that queues every tick
TickerSendQueued(pending) == pending + 1

\* the timer's send on ticker.C, a channel that holds one tick: the send does
\* not block, and a tick that finds the channel full is dropped
TickerSend(pending) == IF pending < 1 THEN pending + 1 ELSE pending

\* the runtime timer fires
TickFire ==
    /\ TickerRunning
    /\ ticksFired < MaxTicks
    /\ ticksFired' = ticksFired + 1
    /\ tickPending' = TickerSend(tickPending)
    /\ UNCHANGED <<cfgVars, logOutput, failedConnects, effectiveIfaceName, pc, exitCode, ticksReceived, cycles,
                   firstStatusAt, cyc, runVars, resolves, nonLoopVars>>

\* AtSelect of a loop that serves ticks while a command of the cycle still runs
AtSelectConcurrent(p) == p = "wait" \/ p \in RunPoints \ {"resolveRun"}

\* main is at the select of the for loop: the body of the previous case returned
AtSelect(p) == p = "wait"

\* case currentTime := <-ticker.C: a cycle starts
ReceiveTick ==
    /\ AtSelect(pc)
    /\ tickPending > 0
    /\ tickPending' = tickPending - 1
    /\ ticksReceived' = ticksReceived + 1
    /\ pc' = "status"
    /\ cycles' = cycles + 1
    /\ cyc' = NoCycle
    /\ UNCHANGED <<cfgVars, logOutput, failedConnects, effectiveIfaceName, exitCode, ticksFired, firstStatusAt,
                   runVars, resolves, nonLoopVars>>

\* AfterStatus that goes on to the visibility check although the query failed
AfterStatusIgnoreErr(v, r) ==
    IF r.connected THEN "wait"
    ELSE IF v = "part000" THEN "connect" ELSE "visibility"

\* AfterStatus that reconnects whatever the status says
AfterStatusAlwaysReconnect(v, r) ==
    IF r.err # "nil" THEN "wait"
    ELSE IF v = "part000" THEN "connect" ELSE "visibility"

\* AfterStatus that gives up and ends the program when the query failed
AfterStatusFatal(v, r) ==
    IF r.err # "nil" THEN "exited"
    ELSE IF r.connected THEN "wait"
    ELSE IF v = "part000" THEN "connect" ELSE "visibility"

\* AfterStatus that sits out the cycle that follows a failed connect command
AfterStatusBackoff(v, r) ==
    IF r.err # "nil" THEN "wait"
    ELSE IF r.connected \/ failedConnects > 0 THEN "wait"
    ELSE IF v = "part000" THEN "connect" ELSE "visibility"

\* where the cycle goes after isConnected returned r
AfterStatus(v, r) ==
    IF r.err # "nil" THEN "wait"
    ELSE IF r.connected THEN "wait"
    ELSE IF v = "part000" THEN "connect" ELSE "visibility"

\* AfterVisibility that tries to connect when the scan failed
AfterVisibilityConnectOnErr(r) ==
    IF r.err # "nil" THEN "connect"
    ELSE IF r.visible THEN "connect" ELSE "wait"

\* AfterVisibility that connects although the target is not visible
AfterVisibilityAlwaysConnect(r) ==
    IF r.err # "nil" THEN "wait" ELSE "connect"

\* AfterVisibility that scans again in the same cycle when the scan failed
AfterVisibilityRetry(r) ==
    IF r.err # "nil" THEN "visibility"
    ELSE IF r.visible THEN "connect" ELSE "wait"

\* AfterVisibility that stops trying after two connect commands failed in a row
AfterVisibilityGiveUp(r) ==
    IF r.err # "nil" THEN "wait"
    ELSE IF r.visible /\ failedConnects < 2 THEN "connect" ELSE "wait"

\* where the cycle goes after isNetworkAvailable returned r
AfterVisibility(r) ==
    IF r.err # "nil" THEN "wait"
    ELSE IF r.visible THEN "connect" ELSE "wait"

\* AfterConnect that checks the status again at once when the command succeeded
AfterConnectRecheck(err) == IF err = "nil" THEN "status" ELSE "wait"

\* where the cycle goes after connectToWifi returned err: it is only logged
AfterConnect(err) == "wait"

\* connected, err := isConnected(targetSSID, effectiveIfaceName)
StatusQuery ==
    /\ pc = "statusRun"
    /\ \E res \in LoopStatusResults :
        /\ CanEndWith(variant, res) /\ Ended(res)
        /\ LET a == CallArgs(targetSSID, wifiInterfaceName, effectiveIfaceName)
               r == isConnected(variant, res, a.ssid, a.iface)
           IN  /\ cyc' = [cyc EXCEPT !.statusErr = r.err,
                                     !.connected = r.connected,
                                     !.cmds = Append(@, "status"),
                                     !.statusOut = res.stdout]
               /\ pc' = AfterStatus(variant, r)
    /\ firstStatusAt' = IF firstStatusAt = -1 THEN ticksReceived ELSE firstStatusAt
    /\ failedConnects' = IF pc' = "wait" THEN 0 ELSE failedConnects
    /\ child' = "none" /\ inFlight' = inFlight - 1
    /\ UNCHANGED <<cfgVars, logOutput, effectiveIfaceName, exitCode, tickVars, cycles,
                   resolves, nonLoopVars>>

\* networkVisible, availErr := isNetworkAvailable(targetSSID, effectiveIfaceName)
VisibilityQuery ==
    /\ pc = "visibilityRun"
    /\ \E res \in LoopScanResults :
        /\ CanEndWith(variant, res) /\ Ended(res)
        /\ LET a == CallArgs(targetSSID, wifiInterfaceName, effectiveIfaceName)
               r == isNetworkAvailable(res, a.ssid)
           IN  /\ cyc' = [cyc EXCEPT !.availErr = r.err,
                                     !.networkVisible = r.visible,
                                     !.cmds = Append(@, "scan")]
               /\ pc' = AfterVisibility(r)
    /\ failedConnects' = IF pc' = "wait" THEN 0 ELSE failedConnects
    /\ child' = "none" /\ inFlight' = inFlight - 1
    /\ UNCHANGED <<cfgVars, logOutput, effectiveIfaceName, exitCode, tickVars, cycles,
                   firstStatusAt, resolves, nonLoopVars>>

\* connectErr := connectToWifi(targetSSID, effectiveIfaceName); the cycle ends
Connect ==
    /\ pc = "connectRun"
    /\ \E res \in LoopConnectResults :
        /\ CanEndWith(variant, res) /\ Ended(res)
        /\ cyc' = [cyc EXCEPT !.connectErr = connectToWifi(res),
                              !.cmds = Append(@, "connect")]
        /\ pc' = AfterConnect(connectToWifi(res))
        /\ failedConnects' = IF connectToWifi(res) # "nil" THEN failedConnects + 1 ELSE 0
    /\ child' = "none" /\ inFlight' = inFlight - 1
    /\ UNCHANGED <<cfgVars, logOutput, effectiveIfaceName, exitCode, tickVars, cycles,
                   firstStatusAt, resolves, nonLoopVars>>

Next ==
    \/ Start
    \/ Invoke
    \/ ChildExit
    \/ Deadline
    \/ Resolve
    \/ StartTicker
    \/ TickFire
    \/ ReceiveTick
    \/ StatusQuery
    \/ VisibilityQuery
    \/ Connect

Spec == LoopInit /\ [][Next]_vars

(***************************************************************************)
(* Properties of the poll loop, on the record of the current cycle.        *)
(***************************************************************************)
ConnectIssued == cyc.connectErr # "none"
ScanIssued == cyc.availErr # "none"
CycleOver == cycles > 0 /\ pc = "wait"
StatusSaysNotConnected == cyc.statusErr = "nil" /\ ~cyc.connected
StatusSaysConnected == cyc.statusErr = "nil" /\ cyc.connected
ScanSaysVisible == cyc.availErr = "nil" /\ cyc.networkVisible

\* C1: in the slog variant and in main.go, a cycle issues the connect command if
\* and only if its status query succeeded with "not connected" and its visibility
\* query succeeded with "visible" (never without both, and always by the end of
\* the cycle with both).
C1_ConnectIffDisconnectedAndVisible ==
    variant \in {"slog", "main"} =>
        /\ ConnectIssued => (StatusSaysNotConnected /\ ScanSaysVisible)
        /\ (CycleOver /\ StatusSaysNotConnected /\ ScanSaysVisible) => ConnectIssued

\* C1 witness: a ticked cycle of main.go that found the target not connected and
\* visible has ended with the connect command issued.
C1_Witness ==
    /\ variant = "main" /\ CycleOver /\ ticksReceived >= 2
    /\ StatusSaysNotConnected /\ ScanSaysVisible
    /\ cyc.cmds = <<"status", "scan", "connect">>

\* C2: in every variant, no connect command is issued in a cycle whose status
\* query reported the interface connected to the target.
C2_NoConnectWhenConnected ==
    StatusSaysConnected => (~ConnectIssued /\ pc # "connect")

\* C2 witness: part_000, in a later cycle, was told "connected" and is waiting for
\* the next tick with nothing but the status query issued.
C2_Witness ==
    /\ variant = "part000" /\ CycleOver /\ cycles >= 2
    /\ StatusSaysConnected
    /\ cyc.cmds = <<"status">>

\* C3 as claimed: in every variant, a connect command is issued only in a cycle
\* whose visibility query found the target in range.
C3_Original == ConnectIssued => ScanSaysVisible

\* C8: in every variant, a cycle whose status query returned an error issues no
\* visibility query and no connect command and is back waiting for the next tick.
C8_StatusErrorSkipsCycle ==
    cyc.statusErr = "err" => (cyc.cmds = <<"status">> /\ pc = "wait")

\* C8 witness: the status query of the slog variant failed in a ticked cycle;
\* the program waits for the next tick with only that query issued.
C8_Witness ==
    /\ variant = "slog" /\ ticksReceived >= 1
    /\ cyc.statusErr = "err" /\ cyc.cmds = <<"status">> /\ pc = "wait"

\* C9: a cycle whose visibility query returned an error issues no connect command
\* and nothing else, and is back waiting for the next tick.
C9_ScanErrorSkipsConnect ==
    cyc.availErr = "err" =>
        (cyc.cmds = <<"status", "scan">> /\ ~ConnectIssued /\ pc = "wait")

\* C9 witness: main.go, not connected, the scan failed with an unrecognised
\* stderr; the program waits for the next tick.
C9_Witness ==
    /\ variant = "main" /\ CycleOver
    /\ StatusSaysNotConnected /\ cyc.availErr = "err"

\* C10 as claimed: in the slog variant and in main.go the first status query is
\* issued before the first tick is received.
C10_Original ==
    (variant \in {"slog", "main"} /\ ticksReceived >= 1) => firstStatusAt = 0


\* C11: in every variant at most one netsh command runs at any time, a command
\* runs exactly while main is blocked in it, and so a cycle starts (and every
\* command of a cycle starts) only when every earlier command has returned, also
\* when ticks fire during the cycle.
C11_OneCommandAtATime ==
    /\ inFlight <= 1
    /\ inFlight = 1 <=> pc \in RunPoints
    /\ pc \in RunPoints <=> child # "none"

\* C11 witness: the connect command of a cycle is still running after two ticks
\* have fired during the cycle; it is the only command in flight.
C11_Witness ==
    /\ pc = "connectRun" /\ inFlight = 1
    /\ tickPending = 1 /\ ticksFired >= ticksReceived + 2


\* a step that brings the command in flight nearer to its return, or returns it
TowardsReturn ==
    ChildExit \/ Deadline \/ Resolve \/ StatusQuery \/ VisibilityQuery \/ Connect

\* C12 as claimed: in the slog variant and in main.go an invoked command (resolve,
\* status, scan or connect) always returns control: while it is in flight either
\* its child can still exit, or a deadline ends it, or it returns, even when the
\* child never exits by itself.
C12_Original ==
    (variant \in {"slog", "main"} /\ pc \in RunPoints) => ENABLED TowardsReturn


\* C13 as claimed: in the slog variant and in main.go a missing target name and a
\* failed auto-detection are fatal at startup: the process ends with a non-zero
\* exit status, before the poll loop and without any command of a poll cycle; a
\* program without target name never gets past startup.
C13_Original ==
    variant \in {"slog", "main"} =>
        /\ pc = "exited" => (exitCode # 0 /\ cycles = 0 /\ cyc = NoCycle)
        /\ targetSSID = <<>> => pc \in {"start", "exited"}


\* main is inside the poll loop (the first pass of the slog variant included)
InLoop == pc = "wait" \/ pc \in (CmdPoints \cup RunPoints) \ {"resolve", "resolveRun"}
CommandReturns == pc \in RunPoints /\ pc' # pc

\* C14: once the poll loop is entered it is never left and the process never
\* exits: whatever a status, scan or connect command returns (success, non-zero
\* exit, timeout, any output), the program goes on to the next command of the
\* cycle or waits for the next tick; a process that has exited never ran a cycle
\* and never received a tick.
C14_LoopNeverLeft ==
    /\ [][InLoop => /\ InLoop' /\ exitCode' = -1
                    /\ CommandReturns => pc' \in {"wait", "visibility", "connect"}]_vars
    /\ [](InLoop => exitCode = -1)
    /\ [](pc = "exited" => (cycles = 0 /\ ticksReceived = 0 /\ cyc = NoCycle))

\* C14 witness: main.go, in its third cycle, got a failed connect command after the
\* status and scan queries, and waits for the next tick.
C14_Witness ==
    /\ variant = "main" /\ cycles = 3 /\ pc = "wait"
    /\ cyc.cmds = <<"status", "scan", "connect">> /\ cyc.connectErr = "err"


(***************************************************************************)
(* runNetshCommand (slog variant): one call, from cmd.Run() to the return. *)
(* Time is counted in units of 5 s; MaxNow bounds how long a call is       *)
(* watched.                                                                *)
(***************************************************************************)
commandTimeout == 2
MaxNow == 6

\* connectToWifi passes commandTimeout*2, the other callers commandTimeout
RunnerTimeouts == {commandTimeout, commandTimeout * 2}

RunnerInit ==
    /\ rnTimeout \in RunnerTimeouts
    /\ rnNow = 0
    /\ rnPc = "run"
    /\ rnChild = "running"
    /\ rnExpired = FALSE
    /\ rnRunErr = "none"
    /\ rnOutcome = "none"
    /\ StatusIdle /\ ScanIdle /\ LoopIdle /\ ResolverIdle

\* time passes; when the deadline of ctx is reached, ctx.Err() becomes
\* DeadlineExceeded and a child that still runs is killed
RunnerTime ==
    /\ rnPc # "done"
    /\ rnNow < MaxNow
    /\ rnNow' = rnNow + 1
    /\ IF rnNow' = rnTimeout
       THEN /\ rnExpired' = TRUE
            /\ rnChild' = IF rnChild = "running" THEN "killed" ELSE rnChild
       ELSE UNCHANGED <<rnExpired, rnChild>>
    /\ UNCHANGED <<rnTimeout, rnPc, rnRunErr, rnOutcome, nonRunnerVars>>

\* the netsh child exits by itself, with code 0 or with another code
RunnerChildExit ==
    /\ rnPc = "run"
    /\ rnChild = "running"
    /\ rnChild' \in {"exit0", "exitN"}
    /\ UNCHANGED <<rnTimeout, rnNow, rnPc, rnExpired, rnRunErr, rnOutcome, nonRunnerVars>>

\* err = cmd.Run() returns once the child has ended
RunnerRunReturns ==
    /\ rnPc = "run"
    /\ rnChild # "running"
    /\ rnRunErr' = IF rnChild = "exit0" THEN "nil" ELSE "err"
    /\ rnPc' = "ran"
    /\ UNCHANGED <<rnTimeout, rnNow, rnChild, rnExpired, rnOutcome, nonRunnerVars>>

\* the error runNetshCommand returns, from ctx.Err() and the err of cmd.Run()
RunnerOutcome(expired, runErr) ==
    IF expired THEN "timeout"
    ELSE IF runErr # "nil" THEN "failure"
    ELSE "nil"

\* if ctx.Err() == context.DeadlineExceeded ... if err != nil ... return
RunnerReport ==
    /\ rnPc = "ran"
    /\ rnOutcome' = RunnerOutcome(rnExpired, rnRunErr)
    /\ rnPc' = "done"
    /\ UNCHANGED <<rnTimeout, rnNow, rnChild, rnExpired, rnRunErr, nonRunnerVars>>

RunnerNext ==
    \/ RunnerTime
    \/ RunnerChildExit
    \/ RunnerRunReturns
    \/ RunnerReport

SpecRunner == RunnerInit /\ [][RunnerNext]_vars

\* C15 as claimed: runNetshCommand returns nil when the child exited with code 0
\* before the deadline, a timeout error when the deadline passed before the child
\* exited (the child was killed), and a non-zero-exit error otherwise; so a child
\* that exited with code 0 in time is never reported as timed out.
C15_Original ==
    rnPc = "done" =>
        rnOutcome = CASE rnChild = "exit0" -> "nil"
                      [] rnChild = "killed" -> "timeout"
                      [] OTHER -> "failure"


(***************************************************************************)
(* getWlanInterface on the outputs of netsh wlan show interfaces.           *)
(* MaxResolverLines bounds the length of an output.                        *)
(***************************************************************************)
MaxResolverLines == 3

ResolverLines ==
    { Labelled(keywordInterfaceName, Iface1),
      Labelled(keywordNameEn, Iface2),
      Labelled(keywordNameEn, <<"W", Colon, "2">>),
      Labelled(keywordInterfaceName, <<>>),
      <<" ">> \o keywordInterfaceName \o <<" ", "W", "\r">>,
      Labelled(<<"x">> \o keywordNameEn, Iface1),
      Labelled(keywordSSID, SSID1) }

ResolverResults ==
    { CmdResult("nil", JoinLines(lines), <<>>) :
        lines \in SeqsUpTo(ResolverLines, MaxResolverLines) }
    \cup { CmdResult("exit", <<>>, <<"x">>), CmdResult("timeout", <<>>, <<>>) }

ResolverRunning == [name |-> <<>>, err |-> "running"]

ResolverInit ==
    /\ rvRes \in ResolverResults
    /\ rvRet = ResolverRunning
    /\ StatusIdle /\ ScanIdle /\ LoopIdle /\ RunnerIdle

ResolverReturn ==
    /\ rvRet = ResolverRunning
    /\ rvRet' = getWlanInterface(rvRes)
    /\ UNCHANGED <<rvRes, nonResolverVars>>

ResolverNext == ResolverReturn

SpecResolver == ResolverInit /\ [][ResolverNext]_vars

\* the listing, line by line, as the claim reads it
Rl(i) == TrimSpace(Split(rvRes.stdout, "\n")[i])
AfterFirstColon(t) == TrimSpace(SubSeq(t, IndexOf(t, Colon) + 1, Len(t)))
NamesInterface(i) ==
    /\ HasPrefix(Rl(i), keywordInterfaceName) \/ HasPrefix(Rl(i), keywordNameEn)
    /\ IndexOf(Rl(i), Colon) > 0
    /\ AfterFirstColon(Rl(i)) # <<>>
ResolverLineCount == Len(Split(rvRes.stdout, "\n"))
ResolverReturned == rvRet # ResolverRunning

\* C16: when the listing command succeeded, getWlanInterface returns the trimmed
\* text after the first colon of the first line that starts with the label
\* 'ming cheng' (Chinese) or 'Name' and has a non-empty value, and the not-found
\* error exactly when there is no such line.
C16_FirstNamedInterface ==
    (ResolverReturned /\ rvRes.err = "nil") =>
        IF \E i \in 1..ResolverLineCount : NamesInterface(i)
        THEN LET first == CHOOSE i \in 1..ResolverLineCount :
                            NamesInterface(i) /\ \A j \in 1..(i - 1) : ~NamesInterface(j)
             IN  rvRet = [name |-> AfterFirstColon(Rl(first)), err |-> "nil"]
        ELSE rvRet = [name |-> <<>>, err |-> "err"]

\* C16 witness: a Chinese name line with an empty value, then an English name
\* line whose value holds a second colon, then another name line: the resolver
\* returned the value of the second line, colon included.
C16_Witness ==
    /\ ResolverReturned /\ ResolverLineCount = 3
    /\ HasPrefix(Rl(1), keywordInterfaceName) /\ ~NamesInterface(1)
    /\ HasPrefix(Rl(2), keywordNameEn) /\ NamesInterface(2)
    /\ NamesInterface(3)
    /\ rvRet = [name |-> <<"W", Colon, "2">>, err |-> "nil"]


CycleStarts == cycles' = cycles + 1

C19_OneOfEachInOrder ==
    /\ cyc.cmds \in {<<>>, <<"status">>, <<"status", "scan">>,
                     <<"status", "scan", "connect">>, <<"status", "connect">>}
    /\ pc \in {"status", "statusRun"} => cyc.cmds = <<>>
    /\ pc \in {"visibility", "visibilityRun"} =>
            (cyc.cmds = <<"status">> /\ StatusSaysNotConnected)
    /\ ScanIssued => (StatusSaysNotConnected /\ cyc.cmds[2] = "scan")
    /\ pc \in {"connect", "connectRun"} =>
            cyc.cmds = IF variant = "part000" THEN <<"status">> ELSE <<"status", "scan">>

\* C19 witness: main.go, in a later cycle, is blocked in the visibility query after
\* a status query that succeeded with "not connected".
C19_Witness ==
    /\ variant = "main" /\ cycles >= 2 /\ pc = "visibilityRun" /\ inFlight = 1
    /\ cyc.cmds = <<"status">> /\ StatusSaysNotConnected


\* C20: the target name and, once the ticker is created, the interface name never
\* change; every command of a cycle is called with exactly these two values;
\* getWlanInterface is called at most once, only when no interface name was
\* configured, and never once the ticker exists; a configured name is used as is.
C20_NamesFixedAtStartup ==
    /\ [](cyc.args \subseteq {[ssid |-> targetSSID, iface |-> effectiveIfaceName]})
    /\ [](resolves <= 1 /\ (resolves = 1 => wifiInterfaceName = <<>>))
    /\ []((InLoop \/ pc = "ticker") =>
            /\ wifiInterfaceName # <<>> => effectiveIfaceName = wifiInterfaceName
            /\ wifiInterfaceName = <<>> => (resolves = 1 /\ effectiveIfaceName # <<>>))
    /\ [][/\ UNCHANGED <<targetSSID, wifiInterfaceName>>
          /\ (InLoop \/ pc = "ticker") => UNCHANGED <<effectiveIfaceName, resolves>>]_vars

\* C20 witness: main.go without configured interface resolved the name once at
\* startup; in its third cycle all three commands were called with the target
\* name and the resolved interface name.
C20_Witness ==
    /\ variant = "main" /\ wifiInterfaceName = <<>> /\ resolves = 1
    /\ cycles = 3 /\ cyc.cmds = <<"status", "scan", "connect">>
    /\ cyc.args = {[ssid |-> SSID1, iface |-> Iface1]}


\* C21: a log file that cannot be opened does not stop startup: the logger then
\* writes to standard output, and from the logger setup main goes where the
\* target name and the interface name alone send it (exit for a missing target in
\* the slog variant, else auto-detection or the ticker), whatever happened to the
\* log file; a program whose log file failed ends only for the reasons that end
\* it otherwise (a failed auto-detection, a missing target in the slog variant, a
\* poll interval the ticker does not take).
C21_LogFallback ==
    /\ [](pc # "start" => logOutput = IF logFile = "opens" THEN "file" ELSE "stdout")
    /\ [][pc = "start" =>
            pc' = IF variant = "slog" /\ targetSSID = <<>> THEN "exited"
                  ELSE IF wifiInterfaceName = <<>> THEN "resolve" ELSE "ticker"]_vars
    /\ []((logFile = "fails" /\ pc = "exited") =>
            (\/ resolves = 1
             \/ variant = "slog" /\ targetSSID = <<>>
             \/ NewTickerPanics(checkInterval)))

\* C21 witness: the log file of main.go could not be opened; the program logs to
\* standard output, resolved its interface and is in the connect command of its
\* second cycle.
C21_Witness ==
    /\ variant = "main" /\ logFile = "fails" /\ logOutput = "stdout"
    /\ resolves = 1 /\ cycles = 2 /\ pc = "connectRun"


(***************************************************************************)
(* getWlanInterface and isConnected (all variants) on one and the same     *)
(* output of netsh wlan show interfaces.  MaxListingLines bounds its       *)
(* length.                                                                 *)
(***************************************************************************)
MaxListingLines == 4

stateAuthenticating == <<"zheng", "zai", "yan", "zheng">>

ListingLines ==
    { Labelled(keywordInterfaceName, Iface1),
      Labelled(keywordInterfaceName, Iface2),
      Labelled(keywordNameEn, Iface1),
      Labelled(keywordSSID, SSID1),
      Labelled(keywordSSID, SSID2),
      Labelled(keywordState, keywordConnectedState),
      Labelled(keywordState, stateAuthenticating) }

ListingInit ==
    /\ psTarget \in {<<>>, SSID1}
    /\ psIface \in {Iface1}
    /\ psLines \in SeqsUpTo(ListingLines, MaxListingLines)
    /\ ps = <<>>
    /\ psCmdErr = "running"
    /\ psRet = StatusRunning
    /\ rvRes = CmdResult("nil", JoinLines(psLines), <<>>)
    /\ rvRet = ResolverRunning
    /\ ScanIdle /\ LoopIdle /\ RunnerIdle

\* the command succeeded: getWlanInterface and isConnected return on its output
ListingReturn ==
    /\ psCmdErr = "running"
    /\ psCmdErr' = "nil"
    /\ rvRet' = getWlanInterface(rvRes)
    /\ psRet' = [v \in Variants |-> isConnected(v, rvRes, psTarget, psIface)]
    /\ UNCHANGED <<psTarget, psIface, psLines, ps, rvRes, scVars, lpVars, rnVars>>

ListingNext == ListingReturn

SpecListing == ListingInit /\ [][ListingNext]_vars

\* line i opens a block named iface or lies inside one
OwnLine(i, iface) ==
    \/ OpensBlock(i) /\ ValueOf(Tl(i)) = iface
    \/ InBlockOf(i, iface)

\* the output without the lines before the first block and without the blocks
\* of other interfaces
OwnLines(iface) ==
    LET own == {i \in 1..Len(psLines) : OwnLine(i, iface)}
        nth(k) == CHOOSE i \in own : Cardinality({j \in own : j <= i}) = k
    IN  [k \in 1..Cardinality(own) |-> psLines[nth(k)]]

Ol(i) == TrimSpace(Split(cyc.statusOut, "\n")[i])
OutLineCount == Len(Split(cyc.statusOut, "\n"))
OutOpens(i) == HasPrefix(Ol(i), keywordInterfaceName) /\ HasValue(Ol(i))
OutBlockStart(i) ==
    IF \E j \in 1..i : OutOpens(j)
    THEN CHOOSE j \in 1..i : OutOpens(j) /\ \A k \in (j + 1)..i : ~OutOpens(k)
    ELSE 0
OutFirstBlock(iface) ==
    LET opens == {j \in 1..OutLineCount : OutOpens(j) /\ ValueOf(Ol(j)) = iface}
    IN  IF opens = {} THEN 0 ELSE CHOOSE j \in opens : \A k \in opens : j <= k
OutSSIDLines(b) ==
    {i \in 1..OutLineCount : /\ b > 0 /\ i > b /\ OutBlockStart(i) = b
                             /\ HasPrefix(Ol(i), keywordSSID) /\ HasValue(Ol(i))
                             /\ ~Contains(Ol(i), markerAPBSSID)}
OutStateLines(b) ==
    {i \in 1..OutLineCount : /\ b > 0 /\ i > b /\ OutBlockStart(i) = b
                             /\ HasPrefix(Ol(i), keywordState) /\ HasValue(Ol(i))}
NotConnectedState(i) == ValueOf(Ol(i)) # <<>> /\ ValueOf(Ol(i)) # keywordConnectedState

StatusAnswered == cyc.statusErr = "nil"
ReconnectsIfVisible ==
    /\ StatusSaysNotConnected
    /\ pc \notin {"status", "statusRun"}
    /\ CycleOver => (ScanIssued /\ (ScanSaysVisible => ConnectIssued))

\* C23 as claimed: in the slog variant and in main.go, when some block of the
\* requested interface in the status output has an SSID line with the target and
\* a state line with a non-empty state other than the connected token,
\* isConnected returned (false, nil) and the cycle goes on to the visibility query
\* and, the target being visible, to the connect command.
C23_Original ==
    (/\ variant \in {"slog", "main"} /\ StatusAnswered
     /\ \E b \in 1..OutLineCount :
            /\ OutOpens(b) /\ ValueOf(Ol(b)) = effectiveIfaceName
            /\ \E i \in OutSSIDLines(b) : ValueOf(Ol(i)) = targetSSID
            /\ \E j \in OutStateLines(b) : NotConnectedState(j))
    => ReconnectsIfVisible

\* the first block of the requested interface names the target on all its SSID
\* lines and a non-empty state other than the connected token on all its state
\* lines, and has both
FirstBlockPending ==
    LET b == OutFirstBlock(effectiveIfaceName)
    IN  /\ OutSSIDLines(b) # {} /\ OutStateLines(b) # {}
        /\ \A i \in OutSSIDLines(b) : ValueOf(Ol(i)) = targetSSID
        /\ \A j \in OutStateLines(b) : NotConnectedState(j)

\* C23 (amended): in the slog variant and in main.go, when the first block of the
\* requested interface in the status output has the target on every SSID line
\* and a non-empty state other than the connected token on every state line (and
\* has both), isConnected returned (false, nil) and the cycle goes on to the
\* visibility query and, the target being visible, to the connect command.
C23_PendingStateReconnects ==
    (variant \in {"slog", "main"} /\ StatusAnswered /\ FirstBlockPending)
        => ReconnectsIfVisible

\* C23 witness: the slog variant got a status output whose block says
\* "authenticating" for the target; the scan found the target and the connect
\* command was issued in the same cycle.
C23_Witness ==
    /\ variant = "slog" /\ cyc.statusOut = outAuthenticating /\ FirstBlockPending
    /\ CycleOver /\ ScanSaysVisible
    /\ cyc.cmds = <<"status", "scan", "connect">>


(***************************************************************************)
(* No backoff and no retry limit.                                          *)
(***************************************************************************)
VisibilityReturns == pc = "visibilityRun" /\ pc' # "visibilityRun"
StatusReturns == pc = "statusRun" /\ pc' # "statusRun"

\* C24: whatever the number of connect commands that failed in the cycles just
\* before, a cycle whose status query says "not connected" and whose scan says
\* "visible" (part_000 has no scan) goes on to the connect command; at the end
\* of every such cycle a connect command was issued.
C24_NoRetryLimit ==
    /\ [][(VisibilityReturns /\ cyc'.availErr = "nil" /\ cyc'.networkVisible)
            => (pc' = "connect" /\ failedConnects' = failedConnects)]_vars
    /\ [][(variant = "part000" /\ StatusReturns /\ cyc'.statusErr = "nil"
            /\ ~cyc'.connected)
            => (pc' = "connect" /\ failedConnects' = failedConnects)]_vars
    /\ [](\A n \in 0..(MaxTicks + 1) :
            (/\ failedConnects = n /\ CycleOver /\ StatusSaysNotConnected
             /\ (variant = "part000" \/ ScanSaysVisible)) => ConnectIssued)

\* C24 witness: after three connect commands in a row failed, the fourth cycle of
\* the slog variant found the target visible and runs the connect command again.
C24_Witness ==
    /\ variant = "slog" /\ failedConnects = 3 /\ cycles = 4
    /\ StatusSaysNotConnected /\ ScanSaysVisible /\ pc = "connectRun"


(***************************************************************************)
(* The commands of a cycle as a function of its own results.               *)
(***************************************************************************)
CommandsOf(v, c) ==
    IF c.statusErr # "nil" \/ c.connected THEN <<"status">>
    ELSE IF v = "part000" THEN <<"status", "connect">>
    ELSE IF c.availErr = "nil" /\ c.networkVisible THEN <<"status", "scan", "connect">>
    ELSE <<"status", "scan">>

\* C25: the commands a finished cycle issued are a function of the variant and of
\* the results the cycle itself received (status error and verdict, scan error
\* and verdict), and their arguments are the configured target and the interface
\* fixed at startup: nothing of earlier cycles (their number, their results,
\* their failed connects, the ticks) enters.  Two runs whose k-th cycles receive
\* the same results therefore issue the same commands.
C25_CycleDependsOnOwnResults ==
    CycleOver =>
        /\ cyc.cmds = CommandsOf(variant, cyc)
        /\ cyc.args = {[ssid |-> targetSSID, iface |-> effectiveIfaceName]}

\* C25 witness: the third cycle of main.go, coming after a cycle without a
\* connect command and before that other cycles, received "not connected" and
\* "visible" and issued status, scan, connect like a first cycle does.
C25_Witness ==
    /\ variant = "main" /\ cycles = 3 /\ failedConnects = 1 /\ CycleOver
    /\ StatusSaysNotConnected /\ ScanSaysVisible
    /\ cyc.cmds = <<"status", "scan", "connect">>


(***************************************************************************)
(* The order of the SSID line and the state line inside a block.           *)
(***************************************************************************)
BlockSSIDLines(b) ==
    {i \in (b + 1)..Len(psLines) : BlockStart(i) = b /\ SSIDLabelLine(i)}
BlockStateLines(b) ==
    {i \in (b + 1)..Len(psLines) : BlockStart(i) = b /\ StateLabelLine(i)}

\* the blocks of iface that have one SSID line and one state line
PairBlocks(iface) ==
    {b \in 1..Len(psLines) :
        /\ OpensBlock(b) /\ ValueOf(Tl(b)) = iface
        /\ Cardinality(BlockSSIDLines(b)) = 1
        /\ Cardinality(BlockStateLines(b)) = 1}

\* the output with the SSID line and the state line of block b exchanged
Exchanged(b) ==
    LET i == CHOOSE i \in BlockSSIDLines(b) : TRUE
        j == CHOOSE j \in BlockStateLines(b) : TRUE
    IN  [psLines EXCEPT ![i] = psLines[j], ![j] = psLines[i]]

\* C26 as claimed: for every target and every output of a successful command,
\* each variant of isConnected returns on the output what it returns on the
\* output with the one SSID line and the one state line of a block of the
\* requested interface exchanged.
C26_Original ==
    StatusSucceeded =>
        \A v \in Variants : \A b \in PairBlocks(psIface) :
            psRet[v] = isConnected(v, CmdResult("nil", JoinLines(Exchanged(b)), <<>>),
                                   psTarget, psIface)



(***************************************************************************)
(* The interface getWlanInterface returns, looked up by isConnected.       *)
(***************************************************************************)
\* the line getWlanInterface took the name from, or 0
ResolvedAt ==
    LET named == {i \in 1..ResolverLineCount : NamesInterface(i)}
    IN  IF named = {} THEN 0 ELSE CHOOSE i \in named : \A k \in named : i <= k

\* the lines of the listing after line b up to the next line that names an interface
ResolvedBlock(b) ==
    {i \in (b + 1)..ResolverLineCount : \A k \in (b + 1)..i : ~NamesInterface(k)}
ResolvedSSIDLines(b) ==
    {i \in ResolvedBlock(b) : /\ HasPrefix(Rl(i), keywordSSID) /\ HasValue(Rl(i))
                              /\ ~Contains(Rl(i), markerAPBSSID)}
ResolvedStateLines(b) ==
    {i \in ResolvedBlock(b) : HasPrefix(Rl(i), keywordState) /\ HasValue(Rl(i))}

\* C27 as claimed, in its most favourable reading (the block has one SSID line
\* and one state line): when getWlanInterface returns N from an output and the
\* lines after N's name line, up to the next name line, carry the configured
\* target as the SSID and the connected token as the state, isConnected of the
\* slog variant and of main.go, asked for N on that output, returns true.
C27_Original ==
    (/\ ResolverReturned /\ rvRet.err = "nil" /\ psTarget # <<>>
     /\ Cardinality(ResolvedSSIDLines(ResolvedAt)) = 1
     /\ Cardinality(ResolvedStateLines(ResolvedAt)) = 1
     /\ \A i \in ResolvedSSIDLines(ResolvedAt) : ValueOf(Rl(i)) = psTarget
     /\ \A j \in ResolvedStateLines(ResolvedAt) : ValueOf(Rl(j)) = keywordConnectedState)
    => \A v \in {"slog", "main"} :
            isConnected(v, rvRes, psTarget, rvRet.name).connected


(***************************************************************************)
(* The three implementations of isConnected side by side.                  *)
(***************************************************************************)
\* C28: for every output of a successful status command and a non-empty target,
\* isConnected of the slog variant, of main.go and of part_000 return the same
\* boolean (and no error); while the output is read their three loops have
\* returned or not returned together.
C28_VariantsAgree ==
    psTarget # <<>> =>
        /\ StatusSucceeded =>
            /\ psRet["slog"] = psRet["main"] /\ psRet["main"] = psRet["part000"]
            /\ psRet["slog"].err = "nil"
        /\ (psRet = StatusRunning /\ ps # <<>>) =>
            /\ ps["slog"].done = ps["main"].done /\ ps["main"].done = ps["part000"].done
            /\ ps["slog"].result = ps["main"].result
            /\ ps["main"].result = ps["part000"].result

\* C28 witness: the block of the requested interface holds a name label without
\* a colon (the line the variants test differently), the target and the
\* connected token: the three variants returned true.
C28_Witness ==
    /\ StatusSucceeded /\ psTarget # <<>> /\ Len(psLines) = 4
    /\ OpensBlock(1) /\ ValueOf(Tl(1)) = psIface
    /\ Tl(2) = keywordInterfaceName
    /\ SSIDLabelLine(3) /\ ValueOf(Tl(3)) = psTarget
    /\ StateLabelLine(4) /\ ValueOf(Tl(4)) = keywordConnectedState
    /\ \A v \in Variants : psRet[v] = [connected |-> TRUE, err |-> "nil"]


(***************************************************************************)
(* Ticks missed while a cycle runs.                                        *)
(***************************************************************************)
InitialPass == IF variant = "slog" THEN 1 ELSE 0
TickReceived == ticksReceived' = ticksReceived + 1

\* C29: at most one tick is ever pending in ticker.C, whatever the number of
\* ticks fired while a cycle ran; receiving a tick leaves none pending, so a
\* second cycle cannot start without a new tick; every tick received was fired,
\* and the cycles started never exceed the ticks fired plus the initial pass of
\* the slog variant.
C29_TicksDoNotPileUp ==
    /\ [](tickPending \in {0, 1})
    /\ [](ticksReceived + tickPending <= ticksFired)
    /\ [](cycles <= ticksFired + InitialPass)
    /\ [][TickReceived => (tickPending = 1 /\ tickPending' = 0 /\ cycles' = cycles + 1)]_vars

\* C29 witness: in main.go three ticks fired, two of them while the first cycle
\* ran; the second cycle has just started from the one pending tick and no tick
\* is left.
C29_Witness ==
    /\ variant = "main" /\ ticksFired = 3 /\ ticksReceived = 2 /\ cycles = 2
    /\ tickPending = 0 /\ pc = "status" /\ firstStatusAt = 1


(***************************************************************************)
(* The poll interval at startup.                                           *)
(***************************************************************************)
\* C30 as claimed: the slog variant, started with a non-empty target and with an
\* interface name that was supplied or resolved, never ends, whatever the value
\* of the -interval flag.
C30_Original ==
    (variant = "slog" /\ targetSSID # <<>> /\ effectiveIfaceName # <<>>)
        => pc # "exited"

====
